---------------------------- MODULE Spec2Model ----------------------------
(***************************************************************************)
(* Event listing application: the Event schema with its normalizers        *)
(* (src/database/event.model.ts), the memoized database connection and the *)
(* HTTP handlers (src/app/api/event/route.ts).                             *)
(*                                                                         *)
(* Text is modelled as a sequence of one-character strings, so that        *)
(* trimming, lowercasing, the regular expressions and the number           *)
(* formatting are computed character by character.                         *)
(***************************************************************************)
EXTENDS Integers, Sequences, FiniteSets, TLC

VARIABLES
    cached,        \* globalThis.__mongoose__ : [conn, promise]
    attempts,      \* one entry per mongoose.connect call: the state of its promise
    store,         \* the Event collection: sequence of stored documents
    req,           \* the HTTP requests, one record each
    arg,           \* input of the function under test (function-level specs)
    ret,           \* its result
    phase          \* "in" before the function is applied, "out" after

vars == <<cached, attempts, store, req, arg, ret, phase>>

(***************************************************************************)
(* Bounds of the model.                                                    *)
(***************************************************************************)
MaxTitleLen == 4     \* longest title fed to slugify
MaxPad      == 1     \* longest run of blanks put around a time text
NumRequests == 2     \* HTTP requests handled at the same time
MaxMissing  == 2     \* most plain string fields left empty in one record

(***************************************************************************)
(* Characters and the JavaScript string primitives the code uses.          *)
(***************************************************************************)
LowerLetters == <<"a","b","c","d","e","f","g","h","i","j","k","l","m",
                  "n","o","p","q","r","s","t","u","v","w","x","y","z">>
UpperLetters == <<"A","B","C","D","E","F","G","H","I","J","K","L","M",
                  "N","O","P","Q","R","S","T","U","V","W","X","Y","Z">>
DigitChars   == <<"0","1","2","3","4","5","6","7","8","9">>

Range(f) == { f[i] : i \in DOMAIN f }

IsDigit(c) == c \in Range(DigitChars)
IsLower(c) == c \in Range(LowerLetters)
IsUpper(c) == c \in Range(UpperLetters)
IsSpace(c) == c \in {" ", "\t"}

\* String.prototype.toLowerCase, one character
LowerChar(c) ==
    IF IsUpper(c)
    THEN LowerLetters[CHOOSE i \in 1..26 : UpperLetters[i] = c]
    ELSE c

toLowerCase(s) == [i \in 1..Len(s) |-> LowerChar(s[i])]

RECURSIVE TrimStart(_)
TrimStart(s) ==
    IF s # <<>> /\ IsSpace(Head(s)) THEN TrimStart(Tail(s)) ELSE s

RECURSIVE TrimEnd(_)
TrimEnd(s) ==
    IF s # <<>> /\ IsSpace(s[Len(s)])
    THEN TrimEnd(SubSeq(s, 1, Len(s) - 1))
    ELSE s

\* String.prototype.trim
trim(s) == TrimEnd(TrimStart(s))

\* value of a decimal digit character
DigitValue(c) == (CHOOSE i \in 1..10 : DigitChars[i] = c) - 1

\* parseInt(text, 10) on a text of decimal digits
RECURSIVE parseInt(_)
parseInt(s) ==
    IF s = <<>> THEN 0
    ELSE 10 * parseInt(SubSeq(s, 1, Len(s) - 1)) + DigitValue(s[Len(s)])

\* String(n) for a natural number
RECURSIVE String(_)
String(n) ==
    IF n < 10 THEN <<DigitChars[n + 1]>>
    ELSE String(n \div 10) \o <<DigitChars[(n % 10) + 1]>>

\* String(n).padStart(2, '0')
padStart2(s) == IF Len(s) < 2 THEN <<"0">> \o s ELSE s

(***************************************************************************)
(* slugify (event.model.ts 29-36)                                          *)
(***************************************************************************)
IsSlugAlnum(c) == IsLower(c) \/ IsDigit(c)

\* .replace(/[^a-z0-9]+/g, '-') : every maximal run of other characters
\* becomes one hyphen
RECURSIVE ReplaceNonAlnumRuns(_)
ReplaceNonAlnumRuns(s) ==
    IF s = <<>> THEN <<>>
    ELSE LET n    == Len(s)
             last == s[n]
             init == SubSeq(s, 1, n - 1)
         IN  IF IsSlugAlnum(last) THEN ReplaceNonAlnumRuns(init) \o <<last>>
             ELSE IF n > 1 /\ ~IsSlugAlnum(s[n - 1]) THEN ReplaceNonAlnumRuns(init)
             ELSE ReplaceNonAlnumRuns(init) \o <<"-">>

RECURSIVE DropLeadingHyphens(_)
DropLeadingHyphens(s) ==
    IF s # <<>> /\ Head(s) = "-" THEN DropLeadingHyphens(Tail(s)) ELSE s

RECURSIVE DropTrailingHyphens(_)
DropTrailingHyphens(s) ==
    IF s # <<>> /\ s[Len(s)] = "-"
    THEN DropTrailingHyphens(SubSeq(s, 1, Len(s) - 1))
    ELSE s

\* .replace(/^-+|-+$/g, '')
StripEdgeHyphens(s) == DropTrailingHyphens(DropLeadingHyphens(s))

\* .replace(/--+/g, '-')
RECURSIVE CollapseHyphens(_)
CollapseHyphens(s) ==
    IF Len(s) < 2 THEN s
    ELSE IF s[1] = "-" /\ s[2] = "-" THEN CollapseHyphens(Tail(s))
    ELSE <<s[1]>> \o CollapseHyphens(Tail(s))

\* mutation: the edge hyphens are not stripped
slugify_KeepsEdgeHyphens(input) ==
    CollapseHyphens(ReplaceNonAlnumRuns(trim(toLowerCase(input))))

slugify(input) ==
    CollapseHyphens(StripEdgeHyphens(ReplaceNonAlnumRuns(trim(toLowerCase(input)))))

(***************************************************************************)
(* normalizeTime (event.model.ts 58-82)                                    *)
(***************************************************************************)
AllDigits(s) == \A i \in 1..Len(s) : IsDigit(s[i])
AllSpaces(s) == \A i \in 1..Len(s) : IsSpace(s[i])

Ok(text)   == [ok |-> TRUE,  val |-> text, err |-> ""]
Fail(msg)  == [ok |-> FALSE, val |-> <<>>, err |-> msg]

\* v.match(/^(\d{1,2}):(\d{2})(?::\d{2})?$/) : the lengths k of the hour
\* group for which the whole text matches (at most one)
ColonMatches(v) ==
    { k \in 1..2 :
        /\ Len(v) \in {k + 3, k + 6}
        /\ AllDigits(SubSeq(v, 1, k))
        /\ v[k + 1] = ":"
        /\ AllDigits(SubSeq(v, k + 2, k + 3))
        /\ Len(v) = k + 6 => (v[k + 4] = ":" /\ AllDigits(SubSeq(v, k + 5, k + 6))) }

\* v.match(/^(\d{1,2})\s*(am|pm)$/) || v.match(/^(\d{1,2})(am|pm)$/)
AmPmMatches(v) ==
    { k \in 1..2 :
        /\ Len(v) >= k + 2
        /\ AllDigits(SubSeq(v, 1, k))
        /\ AllSpaces(SubSeq(v, k + 1, Len(v) - 2))
        /\ v[Len(v) - 1] \in {"a", "p"}
        /\ v[Len(v)] = "m" }

\* mutation: "pm" adds 12 to every hour, noon included
normalizeTime_NoonPlusTwelve(value) ==
    LET v == toLowerCase(trim(value)) IN
    IF ColonMatches(v) # {} THEN
        LET k == CHOOSE x \in ColonMatches(v) : TRUE
            h == parseInt(SubSeq(v, 1, k))
            m == parseInt(SubSeq(v, k + 2, k + 3))
        IN  IF h < 0 \/ h > 23 \/ m < 0 \/ m > 59 THEN Fail("Invalid time value")
            ELSE Ok(padStart2(String(h)) \o <<":">> \o padStart2(String(m)))
    ELSE IF AmPmMatches(v) # {} THEN
        LET k      == CHOOSE x \in AmPmMatches(v) : TRUE
            h0     == parseInt(SubSeq(v, 1, k))
            suffix == <<v[Len(v) - 1], v[Len(v)]>>
            h1     == IF suffix = <<"p","m">> THEN h0 + 12 ELSE h0
            h2     == IF suffix = <<"a","m">> /\ h1 = 12 THEN 0 ELSE h1
        IN  IF h0 < 1 \/ h0 > 12 THEN Fail("Invalid time hour")
            ELSE Ok(padStart2(String(h2)) \o <<":","0","0">>)
    ELSE Fail("Invalid time format")

normalizeTime(value) ==
    LET v == toLowerCase(trim(value)) IN
    IF ColonMatches(v) # {} THEN
        LET k == CHOOSE x \in ColonMatches(v) : TRUE
            h == parseInt(SubSeq(v, 1, k))
            m == parseInt(SubSeq(v, k + 2, k + 3))
        IN  IF h < 0 \/ h > 23 \/ m < 0 \/ m > 59 THEN Fail("Invalid time value")
            ELSE Ok(padStart2(String(h)) \o <<":">> \o padStart2(String(m)))
    ELSE IF AmPmMatches(v) # {} THEN
        LET k      == CHOOSE x \in AmPmMatches(v) : TRUE
            h0     == parseInt(SubSeq(v, 1, k))
            suffix == <<v[Len(v) - 1], v[Len(v)]>>
            h1     == IF suffix = <<"p","m">> /\ h0 # 12 THEN h0 + 12 ELSE h0
            h2     == IF suffix = <<"a","m">> /\ h1 = 12 THEN 0 ELSE h1
        IN  IF h0 < 1 \/ h0 > 12 THEN Fail("Invalid time hour")
            ELSE Ok(padStart2(String(h2)) \o <<":","0","0">>)
    ELSE Fail("Invalid time format")

(***************************************************************************)
(* normalizeDate (event.model.ts 42-52)                                    *)
(*                                                                         *)
(* `new Date(text)` is the host's date parser.  The model gives it the     *)
(* texts whose result ECMAScript fixes: the date-only form YYYY-MM-DD      *)
(* (read as UTC midnight of that day) and texts that are no date at all    *)
(* (NaN).  DateTexts below draws only such texts.                          *)
(***************************************************************************)
IsIsoDateText(s) ==
    /\ Len(s) = 10
    /\ AllDigits(SubSeq(s, 1, 4))
    /\ s[5] = "-"
    /\ AllDigits(SubSeq(s, 6, 7))
    /\ s[8] = "-"
    /\ AllDigits(SubSeq(s, 9, 10))
    /\ parseInt(SubSeq(s, 6, 7)) \in 1..12
    /\ parseInt(SubSeq(s, 9, 10)) \in 1..28

\* new Date(trimmed): [nan, year, month (0-based), day] in UTC
DateParse(s) ==
    IF IsIsoDateText(s)
    THEN [nan |-> FALSE, year |-> parseInt(SubSeq(s, 1, 4)),
          month |-> parseInt(SubSeq(s, 6, 7)) - 1, day |-> parseInt(SubSeq(s, 9, 10))]
    ELSE [nan |-> TRUE, year |-> 0, month |-> 0, day |-> 0]

normalizeDate(value) ==
    LET trimmed == trim(value)
        d       == DateParse(trimmed)
    IN  IF d.nan THEN Fail("Invalid date format")
        ELSE Ok(String(d.year) \o <<"-">> \o padStart2(String(d.month + 1))
                  \o <<"-">> \o padStart2(String(d.day)))

(***************************************************************************)
(* EventSchema (event.model.ts 97-197)                                     *)
(*                                                                         *)
(* A document is a record over the schema paths.  An absent string path    *)
(* and an empty one are both the empty text: `required` rejects both, and  *)
(* so does every later check.  An absent array path is the empty array     *)
(* (the schema default of an array path).                                  *)
(***************************************************************************)
SchemaPaths == <<"title", "slug", "description", "overview", "image", "venue",
                 "location", "date", "time", "mode", "audience", "agenda",
                 "organizer", "tags">>

ArrayPaths == {"agenda", "tags"}

\* the paths declared `required: true` with the nonEmptyString validator
RequiredStringPaths == Range(SchemaPaths) \ (ArrayPaths \cup {"slug"})

\* nonEmptyString (87)
nonEmptyString(v) == Len(trim(v)) > 0

\* arrayOfNonEmptyStrings (92-95)
arrayOfNonEmptyStrings(arr) ==
    Len(arr) > 0 /\ \A i \in 1..Len(arr) : Len(trim(arr[i])) > 0

\* the setters run when the document is built from the request data:
\* `trim: true` on every string path, `set: v => v.map(s => s.trim())` on
\* agenda and tags (172, 187)
CastDocument(data) ==
    [p \in Range(SchemaPaths) |->
        IF p \in ArrayPaths
        THEN [i \in 1..Len(data[p]) |-> trim(data[p][i])]
        ELSE trim(data[p])]

\* does path p of the document fail its schema validators
PathFailsValidation(doc, p) ==
    IF p \in ArrayPaths THEN ~arrayOfNonEmptyStrings(doc[p])
    ELSE IF p \in RequiredStringPaths THEN ~(Len(doc[p]) > 0 /\ nonEmptyString(doc[p]))
    ELSE FALSE

\* document validation: the set of failing paths (the validation error
\* carries one entry per failing path; the order in which its message lists
\* them is left open)
ValidateDocument(doc) ==
    { p \in Range(SchemaPaths) : PathFailsValidation(doc, p) }

\* error of a failed save: its message and the set of paths the message names
SaveError(msg, paths) == [ok |-> FALSE, doc |-> <<>>, msg |-> msg, paths |-> paths]
Saved(doc)            == [ok |-> TRUE, doc |-> <<doc>>, msg |-> "", paths |-> {}]

(***************************************************************************)
(* EventSchema.pre('save') (event.model.ts 206-260)                        *)
(***************************************************************************)
\* isModified(path) on a new document: the path was given a value
isModified(doc, p) == doc[p] # <<>>

\* .map(s => s.trim()).filter(s => s.length > 0)
CleanArray(arr) ==
    SelectSeq([i \in 1..Len(arr) |-> trim(arr[i])], LAMBDA s : Len(s) > 0)

\* the order of the requiredStrings loop (229-241)
requiredStrings == <<"title", "description", "overview", "image", "venue",
                     "location", "date", "time", "mode", "audience", "organizer">>

preSave(doc) ==
    LET withSlug == IF isModified(doc, "title") \/ doc.slug = <<>>
                    THEN [doc EXCEPT !.slug = slugify(doc.title)]
                    ELSE doc
        dateRes  == IF isModified(withSlug, "date") THEN normalizeDate(withSlug.date)
                    ELSE Ok(withSlug.date)
        timeRes  == IF isModified(withSlug, "time") THEN normalizeTime(withSlug.time)
                    ELSE Ok(withSlug.time)
    IN  IF ~dateRes.ok THEN SaveError(dateRes.err, {"date"})
        ELSE IF ~timeRes.ok THEN SaveError(timeRes.err, {"time"})
        ELSE
          LET cleaned == [withSlug EXCEPT !.date   = dateRes.val,
                                          !.time   = timeRes.val,
                                          !.agenda = CleanArray(withSlug.agenda),
                                          !.tags   = CleanArray(withSlug.tags)]
              empties == SelectSeq(requiredStrings,
                                   LAMBDA key : Len(trim(cleaned[key])) = 0)
          IN  IF empties # <<>>
              THEN SaveError("Field is required and cannot be empty", {Head(empties)})
              ELSE IF Len(cleaned.agenda) = 0
              THEN SaveError("Agenda is required and cannot be empty", {"agenda"})
              ELSE IF Len(cleaned.tags) = 0
              THEN SaveError("Tags are required and cannot be empty", {"tags"})
              ELSE Saved(cleaned)

(***************************************************************************)
(* Event.create(data) up to the insert (route.ts 129): the document is     *)
(* built (setters), validated, and then handed to the pre('save') hook.    *)
(* Document validation is itself the first pre-save step of the ODM, so    *)
(* it runs before the hook declared at 206.                                *)
(***************************************************************************)
\* mutation: the hook runs on the document without the schema validation
SaveDocument_SkipsValidation(data) == preSave(CastDocument(data))

SaveDocument(data) ==
    LET doc    == CastDocument(data)
        failed == ValidateDocument(doc)
    IN  IF failed # {} THEN SaveError("Event validation failed", failed)
        ELSE preSave(doc)

(***************************************************************************)
(* Request data used by the model.                                         *)
(***************************************************************************)
ValidEvent ==
    [title       |-> <<"A", " ", "b">>,
     slug        |-> <<>>,
     description |-> <<"d">>,
     overview    |-> <<"o">>,
     image       |-> <<"i">>,
     venue       |-> <<"v">>,
     location    |-> <<"l">>,
     date        |-> <<"2","0","2","6","-","0","3","-","0","5">>,
     time        |-> <<"9", "a", "m">>,
     mode        |-> <<"m">>,
     audience    |-> <<"a">>,
     agenda      |-> << <<"T", "1">> >>,
     organizer   |-> <<"g">>,
     tags        |-> << <<"t">> >>]

NotADate    == <<"n", "o", "p", "e">>
BadTime     == <<"2", "5", ":", "0", "0">>
MixedAgenda == << <<" ", " ">>, <<"T", "1">> >>
BlankAgenda == << <<" ", " ">> >>

\* bodies of the create requests of the handler-level specification
OtherEvent     == [ValidEvent EXCEPT !.title = <<"C">>, !.time = <<"1","2",":","3","0">>]
NoTitleEvent   == [ValidEvent EXCEPT !.title = <<" ">>]
BadDateEvent   == [ValidEvent EXCEPT !.date = NotADate]
BadTimeEvent   == [ValidEvent EXCEPT !.time = BadTime]
NoAgendaEvent  == [ValidEvent EXCEPT !.agenda = BlankAgenda]
NoTagsEvent    == [ValidEvent EXCEPT !.tags = <<>>]

InvalidBodies == {NoTitleEvent, BadDateEvent, BadTimeEvent, NoAgendaEvent, NoTagsEvent}
ValidBodies   == {ValidEvent, OtherEvent}

JsonType      == "application/json"
MultipartType == "multipart/form-data"
PlainType     == "text/plain"

\* contentType.includes("application/json") / includes("multipart/form-data")
IsJson(ct)      == ct \in {"application/json"}
IsMultipart(ct) == ct \in {"multipart/form-data"}

\* what a create request carries: content type, whether the payload parses,
\* and the record it holds
PostInputs ==
       { [ctype |-> JsonType, parses |-> TRUE, body |-> b] : b \in ValidBodies \cup InvalidBodies }
  \cup { [ctype |-> JsonType, parses |-> FALSE, body |-> ValidEvent] }
  \cup { [ctype |-> MultipartType, parses |-> ok, body |-> ValidEvent] : ok \in BOOLEAN }
  \cup { [ctype |-> PlainType, parses |-> TRUE, body |-> b] : b \in {ValidEvent, NoTitleEvent} }

ContentTypes == { in.ctype : in \in PostInputs }

\* slugs asked for by get-by-slug requests
GetParams == { <<"a", "-", "b">>, <<"z">> }

(***************************************************************************)
(* State of the handlers.                                                  *)
(***************************************************************************)
NoConn    == 0       \* cached.conn === null
NoPromise == 0       \* cached.promise === null

Requests == 1..NumRequests

Idle ==
    [kind |-> "none", pc |-> "idle", status |-> 0, param |-> <<>>,
     ctype |-> "", doc |-> <<>>,
     awaits |-> NoPromise, conn |-> NoConn, result |-> <<>>,
     msg |-> "", paths |-> {}]

connectCalls == Len(attempts)

\* the handler returns its response
Finish(q, status, result, msg, paths) ==
    [q EXCEPT !.pc = "done", !.status = status, !.result = result,
              !.msg = msg, !.paths = paths, !.awaits = NoPromise]

(***************************************************************************)
(* connectToDatabase (event.model.ts 313-343)                              *)
(***************************************************************************)
\* mutation: the pending promise is not consulted, only the established
\* connection
connectToDatabase_IgnoresPending(r, q) ==
    IF cached.conn # NoConn
    THEN /\ req' = [req EXCEPT ![r] = [q EXCEPT !.pc = "connected", !.conn = cached.conn]]
         /\ UNCHANGED <<cached, attempts>>
    ELSE /\ attempts' = Append(attempts, "pending")
         /\ cached' = [cached EXCEPT !.promise = Len(attempts) + 1]
         /\ req' = [req EXCEPT ![r] = [q EXCEPT !.pc = "awaitConn",
                                                !.awaits = Len(attempts) + 1]]

\* the call up to its `await`: request r (whose record becomes q) either
\* gets the cached connection, or awaits the shared promise, creating it
\* with mongoose.connect when there is none
connectToDatabase(r, q) ==
    IF cached.conn # NoConn
    THEN /\ req' = [req EXCEPT ![r] = [q EXCEPT !.pc = "connected", !.conn = cached.conn]]
         /\ UNCHANGED <<cached, attempts>>
    ELSE IF cached.promise = NoPromise
    THEN /\ attempts' = Append(attempts, "pending")
         /\ cached' = [cached EXCEPT !.promise = Len(attempts) + 1]
         /\ req' = [req EXCEPT ![r] = [q EXCEPT !.pc = "awaitConn",
                                                !.awaits = Len(attempts) + 1]]
    ELSE /\ req' = [req EXCEPT ![r] = [q EXCEPT !.pc = "awaitConn",
                                                !.awaits = cached.promise]]
         /\ UNCHANGED <<cached, attempts>>

\* the driver settles a connection attempt
ConnectFulfils ==
    \E id \in 1..Len(attempts) :
        /\ attempts[id] = "pending"
        /\ attempts' = [attempts EXCEPT ![id] = "fulfilled"]
        /\ UNCHANGED <<cached, store, req, arg, ret, phase>>

ConnectRejects ==
    \E id \in 1..Len(attempts) :
        /\ attempts[id] = "pending"
        /\ attempts' = [attempts EXCEPT ![id] = "rejected"]
        /\ UNCHANGED <<cached, store, req, arg, ret, phase>>

\* `cached.conn = await cached.promise; return cached.conn` (341-342)
AwaitConnReturns(r) ==
    /\ req[r].pc = "awaitConn"
    /\ attempts[req[r].awaits] = "fulfilled"
    /\ cached' = [cached EXCEPT !.conn = req[r].awaits]
    /\ req' = [req EXCEPT ![r].pc = "connected", ![r].conn = req[r].awaits,
                           ![r].awaits = NoPromise]
    /\ UNCHANGED <<attempts, store, arg, ret, phase>>

\* mutation: a failed attempt clears the cached promise
AwaitConnThrows_ClearsPromise(r) ==
    /\ req[r].pc = "awaitConn"
    /\ attempts[req[r].awaits] = "rejected"
    /\ cached' = [cached EXCEPT !.promise = NoPromise]
    /\ req' = [req EXCEPT ![r] = Finish(req[r], 500, <<>>, "connection failed", {})]
    /\ UNCHANGED <<attempts, store, arg, ret, phase>>

\* the awaited promise rejects: the await throws inside the handler's try,
\* and its catch answers 500 (route.ts 78-81, 138-146; event.model.ts 410-413)
AwaitConnThrows(r) ==
    /\ req[r].pc = "awaitConn"
    /\ attempts[req[r].awaits] = "rejected"
    /\ req' = [req EXCEPT ![r] = Finish(req[r], 500, <<>>, "connection failed", {})]
    /\ UNCHANGED <<cached, attempts, store, arg, ret, phase>>

(***************************************************************************)
(* GET /api/event (route.ts 73-82)                                         *)
(***************************************************************************)
ListStart(r) ==
    /\ req[r].pc = "idle"
    /\ connectToDatabase(r, [Idle EXCEPT !.kind = "list"])
    /\ UNCHANGED <<store, arg, ret, phase>>

\* Event.find().populate('bookings') resolves with every stored document
ListFind(r) ==
    /\ req[r].kind = "list" /\ req[r].pc = "connected"
    /\ req' = [req EXCEPT ![r] = Finish(req[r], 200, store, "", {})]
    /\ UNCHANGED <<cached, attempts, store, arg, ret, phase>>

\* ... or rejects (the query fails, or `bookings` is no path of the schema)
ListFindThrows(r) ==
    /\ req[r].kind = "list" /\ req[r].pc = "connected"
    /\ req' = [req EXCEPT ![r] = Finish(req[r], 500, <<>>, "Failed to fetch events", {})]
    /\ UNCHANGED <<cached, attempts, store, arg, ret, phase>>

(***************************************************************************)
(* GET /api/event/{slug} (event.model.ts 402-414)                          *)
(***************************************************************************)
GetStart(r, slug) ==
    /\ req[r].pc = "idle"
    /\ connectToDatabase(r, [Idle EXCEPT !.kind = "get", !.param = slug])
    /\ UNCHANGED <<store, arg, ret, phase>>

\* Event.findOne({ slug }) : the first stored document with that slug
\* (an empty sequence when there is none)
findOne(slug) == SelectSeq(store, LAMBDA d : d.slug = slug)

\* mutation: an absent event is answered like a found one
GetFindOne_NoNotFound(r) ==
    /\ req[r].kind = "get" /\ req[r].pc = "connected"
    /\ LET found == findOne(req[r].param)
       IN  req' = [req EXCEPT ![r] =
                     Finish(req[r], 200, IF found = <<>> THEN <<>> ELSE <<Head(found)>>,
                            "", {})]
    /\ UNCHANGED <<cached, attempts, store, arg, ret, phase>>

\* the lookup and the answer (405-409)
GetFindOne(r) ==
    /\ req[r].kind = "get" /\ req[r].pc = "connected"
    /\ LET found == findOne(req[r].param)
       IN  req' = [req EXCEPT ![r] =
                     IF found = <<>>
                     THEN Finish(req[r], 404, <<>>, "Event not found", {})
                     ELSE Finish(req[r], 200, <<Head(found)>>, "", {})]
    /\ UNCHANGED <<cached, attempts, store, arg, ret, phase>>

\* the lookup itself rejects
GetFindOneThrows(r) ==
    /\ req[r].kind = "get" /\ req[r].pc = "connected"
    /\ req' = [req EXCEPT ![r] = Finish(req[r], 500, <<>>, "Failed to fetch event", {})]
    /\ UNCHANGED <<cached, attempts, store, arg, ret, phase>>

(***************************************************************************)
(* POST /api/event (route.ts 86-147; the per-collection variant 5-66 is    *)
(* the same code)                                                          *)
(***************************************************************************)
\* the request arrives with its Content-Type header; its payload is read
\* later, by request.json() or request.formData()
PostStart(r, ct) ==
    /\ req[r].pc = "idle"
    /\ connectToDatabase(r, [Idle EXCEPT !.kind = "create", !.ctype = ct])
    /\ UNCHANGED <<store, arg, ret, phase>>

\* mutation: an unsupported content type falls through to Event.create
ParseStatus_AcceptsAnyType(in) ==
    IF IsMultipart(in.ctype) /\ ~in.parses THEN 400
    ELSE IF ~in.parses THEN 500
    ELSE 0

\* the content-type dispatch and the parsing of the payload (90-127):
\* the status answered at once, or 0 when the data goes on to Event.create
ParseStatus(in) ==
    IF IsJson(in.ctype) THEN (IF in.parses THEN 0 ELSE 500)
    ELSE IF IsMultipart(in.ctype) THEN (IF in.parses THEN 0 ELSE 400)
    ELSE 415

\* Event.create's outcome for each payload the model sends
CreateResults == [b \in { in.body : in \in PostInputs } |-> SaveDocument(b)]

\* mutation: a record Event.create rejects is answered 400
PostCreate_Answers400(r, in) ==
    /\ req[r].kind = "create" /\ req[r].pc = "connected"
    /\ in.ctype = req[r].ctype
    /\ LET q   == req[r]
           st  == ParseStatus(in)
           res == CreateResults[in.body]
       IN  req' = [req EXCEPT ![r] =
                 IF st # 0
                 THEN Finish(q, st, <<>>, "request not accepted", {})
                 ELSE IF res.ok THEN [q EXCEPT !.pc = "insert", !.doc = res.doc]
                 ELSE Finish(q, 400, <<>>, res.msg, res.paths)]
    /\ UNCHANGED <<cached, attempts, store, arg, ret, phase>>

\* the handler from the first read of the request to the insert: `in` is
\* what the request carries (content type, payload).  Event.create(data)
\* builds, validates and runs the pre-save hook; all of it is local to the
\* request, and a rejection is caught and answered 500 (138-146).  A record
\* that passes goes on to the insert.
PostCreate(r, in) ==
    /\ req[r].kind = "create" /\ req[r].pc = "connected"
    /\ in.ctype = req[r].ctype
    /\ LET q   == req[r]
           st  == ParseStatus(in)
           res == CreateResults[in.body]
       IN  req' = [req EXCEPT ![r] =
                 IF st # 0
                 THEN Finish(q, st, <<>>, "request not accepted", {})
                 ELSE IF res.ok THEN [q EXCEPT !.pc = "insert", !.doc = res.doc]
                 ELSE Finish(q, 500, <<>>, res.msg, res.paths)]
    /\ UNCHANGED <<cached, attempts, store, arg, ret, phase>>

\* mutation: the collection has no unique index on slug
PostInsert_NoUniqueIndex(r) ==
    /\ req[r].kind = "create" /\ req[r].pc = "insert"
    /\ store' = Append(store, req[r].doc[1])
    /\ req' = [req EXCEPT ![r] = Finish(req[r], 201, req[r].doc, "", {})]
    /\ UNCHANGED <<cached, attempts, arg, ret, phase>>

\* Event.create(data), the insert: the server applies it atomically under
\* the unique index on slug (107, 197); a duplicate key rejects, and the
\* catch answers 500
PostInsert(r) ==
    /\ req[r].kind = "create" /\ req[r].pc = "insert"
    /\ LET doc == req[r].doc[1]
           q   == req[r]
       IN  IF \E i \in 1..Len(store) : store[i].slug = doc.slug
           THEN /\ req' = [req EXCEPT ![r] =
                             Finish(q, 500, <<>>, "E11000 duplicate key", {"slug"})]
                /\ UNCHANGED store
           ELSE /\ store' = Append(store, doc)
                /\ req' = [req EXCEPT ![r] = Finish(q, 201, <<doc>>, "", {})]
    /\ UNCHANGED <<cached, attempts, arg, ret, phase>>

\* the insert fails for another reason: nothing is written
PostInsertThrows(r) ==
    /\ req[r].kind = "create" /\ req[r].pc = "insert"
    /\ req' = [req EXCEPT ![r] = Finish(req[r], 500, <<>>, "write failed", {})]
    /\ UNCHANGED <<cached, attempts, store, arg, ret, phase>>

\* the response has been sent: the slot takes the next request
Respond(r) ==
    /\ req[r].pc = "done"
    /\ req' = [req EXCEPT ![r] = Idle]
    /\ UNCHANGED <<cached, attempts, store, arg, ret, phase>>

(***************************************************************************)
(* The handlers running concurrently over one process and one collection.  *)
(***************************************************************************)
Init ==
    /\ cached = [conn |-> NoConn, promise |-> NoPromise]
    /\ attempts = <<>>
    /\ store = <<>>
    /\ req = [r \in Requests |-> Idle]
    /\ arg = <<>>
    /\ ret = <<>>
    /\ phase = "off"

Next ==
    \/ \E r \in Requests : ListStart(r)
    \/ \E r \in Requests, slug \in GetParams : GetStart(r, slug)
    \/ \E r \in Requests, ct \in ContentTypes : PostStart(r, ct)
    \/ ConnectFulfils
    \/ ConnectRejects
    \/ \E r \in Requests : AwaitConnReturns(r)
    \/ \E r \in Requests : AwaitConnThrows(r)
    \/ \E r \in Requests : ListFind(r)
    \/ \E r \in Requests : ListFindThrows(r)
    \/ \E r \in Requests : GetFindOne(r)
    \/ \E r \in Requests : GetFindOneThrows(r)
    \/ \E r \in Requests, in \in PostInputs : PostCreate(r, in)
    \/ \E r \in Requests : PostInsert(r)
    \/ \E r \in Requests : PostInsertThrows(r)
    \/ \E r \in Requests : Respond(r)

Spec == Init /\ [][Next]_vars

(***************************************************************************)
(* Function-level specifications: the input is drawn in the initial state  *)
(* and one step applies the function.  The handlers stay at rest.          *)
(***************************************************************************)
AtRest ==
    /\ cached = [conn |-> NoConn, promise |-> NoPromise]
    /\ attempts = <<>>
    /\ store = <<>>
    /\ req = [r \in Requests |-> Idle]

Texts(chars, n) == UNION { [1..k -> chars] : k \in 0..n }

\* --- slugify -------------------------------------------------------------
TitleChars == {"a", "B", "1", " ", "-", "!"}

InitSlug ==
    /\ AtRest
    /\ arg \in Texts(TitleChars, MaxTitleLen)
    /\ ret = <<>>
    /\ phase = "in"

SlugifyStep ==
    /\ phase = "in"
    /\ ret' = slugify(arg)
    /\ phase' = "out"
    /\ UNCHANGED <<cached, attempts, store, req, arg>>

SpecSlug == InitSlug /\ [][SlugifyStep]_vars

\* --- normalizeTime -------------------------------------------------------
Blanks == { [i \in 1..n |-> " "] : n \in 0..MaxPad }

HourTexts == { <<>>, <<"0">>, <<"1">>, <<"9">>, <<"0","0">>, <<"0","9">>, <<"1","2">>,
               <<"1","3">>, <<"2","3">>, <<"2","4">>, <<"1","2","3">> }
SepTexts  == { <<>>, <<":">>, <<" ">> }
MinTexts  == { <<>>, <<"5">>, <<"0","0">>, <<"3","0">>, <<"5","9">>, <<"6","0">>,
               <<"3","0","0">> }
TailTexts == { <<>>, <<":","1","5">>, <<":","1">>, <<"a","m">>, <<"p","m">>,
               <<"P","M">>, <<"\t","a","m">>, <<"x">> }

TimeTexts ==
    { b1 \o h \o sp \o m \o t \o b2 :
        b1 \in Blanks, h \in HourTexts, sp \in SepTexts, m \in MinTexts,
        t \in TailTexts, b2 \in Blanks }

InitTime ==
    /\ AtRest
    /\ arg \in TimeTexts
    /\ ret = <<>>
    /\ phase = "in"

NormalizeTimeStep ==
    /\ phase = "in"
    /\ ret' = normalizeTime(arg)
    /\ phase' = "out"
    /\ UNCHANGED <<cached, attempts, store, req, arg>>

SpecTime == InitTime /\ [][NormalizeTimeStep]_vars

\* --- Event.create up to the insert -----------------------------------------
\* the plain required string paths (every one but title, date and time)
PlainPaths == {"description", "overview", "image", "venue", "location", "mode",
               "audience", "organizer"}

TitleInputs  == { <<"A", " ", "b">>, <<" ">> }
DateInputs   == { ValidEvent.date, <<" ">> \o ValidEvent.date, NotADate, <<>> }
TimeInputs   == { <<"9", "a", "m">>, BadTime, <<>> }
AgendaInputs == { ValidEvent.agenda, MixedAgenda, BlankAgenda, <<>> }
TagsInputs   == { ValidEvent.tags, << <<" ">>, <<"t", " ">> >>, <<>> }

\* ValidEvent with the plain paths in `missing` left empty
WithMissing(missing) ==
    [p \in DOMAIN ValidEvent |-> IF p \in missing THEN <<>> ELSE ValidEvent[p]]

SaveInputs ==
    { [WithMissing(missing) EXCEPT !.title = t, !.date = d, !.time = tm,
                                   !.agenda = a, !.tags = g] :
        missing \in { m \in SUBSET PlainPaths : Cardinality(m) <= MaxMissing },
        t \in TitleInputs, d \in DateInputs, tm \in TimeInputs,
        a \in AgendaInputs, g \in TagsInputs }

InitSave ==
    /\ AtRest
    /\ arg \in SaveInputs
    /\ ret = <<>>
    /\ phase = "in"

SaveStep ==
    /\ phase = "in"
    /\ ret' = SaveDocument(arg)
    /\ phase' = "out"
    /\ UNCHANGED <<cached, attempts, store, req, arg>>

SpecSave == InitSave /\ [][SaveStep]_vars

(***************************************************************************)
(* Properties of the handlers (specification Spec).                        *)
(***************************************************************************)
Blank(text) == \A i \in 1..Len(text) : text[i] \in {" ", "\t"}

\* the entries of an array that are not blank, trimmed, in their order
RECURSIVE NonBlankEntries(_)
NonBlankEntries(arr) ==
    IF arr = <<>> THEN <<>>
    ELSE IF Blank(Head(arr)) THEN NonBlankEntries(Tail(arr))
    ELSE <<trim(Head(arr))>> \o NonBlankEntries(Tail(arr))

\* a record that cannot be normalized or validated: a required string
\* missing or blank, a date or time that does not parse, agenda or tags with
\* nothing left once blank entries are dropped
RecordIsInvalid(b) ==
    \/ \E p \in RequiredStringPaths : Blank(b[p])
    \/ ~normalizeDate(b.date).ok
    \/ ~normalizeTime(b.time).ok
    \/ NonBlankEntries(b.agenda) = <<>>
    \/ NonBlankEntries(b.tags) = <<>>

\* C1: a create request whose record fails normalization or validation is
\* answered 500 (not 201, not a 4xx) by the step that runs Event.create, and
\* that step, the request's last, leaves the stored documents as they were.
C1_InvalidRecordAborts ==
    [][ \A r \in Requests, in \in PostInputs :
          (PostCreate(r, in) /\ ParseStatus(in) = 0 /\ RecordIsInvalid(in.body))
              => /\ req'[r].pc = "done"
                 /\ req'[r].status = 500
                 /\ req'[r].result = <<>>
                 /\ store' = store ]_vars

\* one create was stored, another was rejected for its agenda and answered
\* 500, and the store holds the one document
C1_Witness ==
    \E r1, r2 \in Requests :
        /\ req[r1].kind = "create" /\ req[r1].status = 201
        /\ req[r2].kind = "create" /\ req[r2].pc = "done" /\ req[r2].status = 500
        /\ req[r2].paths = {"agenda"}
        /\ Len(store) = 1

UniqueSlugs ==
    \A i, j \in 1..Len(store) : i # j => store[i].slug # store[j].slug

C3_SingleConnect ==
    /\ connectCalls <= 1
    /\ \A r \in Requests :
          /\ req[r].pc = "awaitConn" => (req[r].awaits = cached.promise /\ req[r].awaits = 1)
          /\ req[r].conn # NoConn => (req[r].conn = cached.conn /\ req[r].conn = 1)

\* two calls were made before the attempt resolved; both wait for it
C3_Witness ==
    \E r1, r2 \in Requests :
        /\ r1 # r2
        /\ req[r1].pc = "awaitConn" /\ req[r2].pc = "awaitConn"
        /\ attempts = <<"pending">>

Unsupported(ct) == ~IsJson(ct) /\ ~IsMultipart(ct)

\* C4 as stated: a create request with an unsupported content type is
\* answered 415.
C4_Original ==
    \A r \in Requests :
        (req[r].kind = "create" /\ req[r].pc = "done" /\ Unsupported(req[r].ctype))
            => req[r].status = 415

\* C4, amended: a create request with an unsupported content type never
\* reaches the insert; it is answered 415 when connectToDatabase returned a
\* connection and 500 when the connection attempt failed.
C4_UnsupportedType ==
    \A r \in Requests :
        (req[r].kind = "create" /\ Unsupported(req[r].ctype))
            => /\ req[r].pc # "insert"
               /\ req[r].doc = <<>>
               /\ req[r].pc = "done" =>
                     /\ req[r].result = <<>>
                     /\ req[r].status = (IF req[r].conn # NoConn THEN 415 ELSE 500)

\* a text/plain create was answered 415 after the connection was made
C4_Witness ==
    \E r \in Requests :
        /\ req[r].kind = "create" /\ req[r].ctype = PlainType
        /\ req[r].pc = "done" /\ req[r].status = 415
        /\ cached.conn # NoConn

\* C5: the step that ends a get-by-slug request answers 500 exactly when
\* the connection or the lookup failed; otherwise 404 with no document when
\* no stored event has the slug, and 200 with a stored event of that slug
\* when one has.  No step of a get-by-slug request changes the store.
C5_GetBySlug ==
    [][ \A r \in Requests :
          /\ (req'[r].kind = "get" /\ req'[r] # req[r]) => store' = store
          /\ (req[r].kind = "get" /\ req[r].pc # "done" /\ req'[r].pc = "done")
                => LET failed  == AwaitConnThrows(r) \/ GetFindOneThrows(r)
                       present == \E i \in 1..Len(store) : store[i].slug = req[r].param
                   IN  /\ (req'[r].status = 500) <=> failed
                       /\ (~failed /\ ~present) =>
                             (req'[r].status = 404 /\ req'[r].result = <<>>)
                       /\ (~failed /\ present) =>
                             /\ req'[r].status = 200
                             /\ Len(req'[r].result) = 1
                             /\ req'[r].result[1].slug = req[r].param
                             /\ \E i \in 1..Len(store) : store[i] = req'[r].result[1] ]_vars

\* an event is stored, and a get for another slug was answered 404 with no
\* document
C5_Witness ==
    \E r \in Requests :
        /\ req[r].kind = "get" /\ req[r].pc = "done"
        /\ req[r].status = 404 /\ req[r].result = <<>>
        /\ Len(store) = 1
        /\ store[1].slug # req[r].param

\* C10: once the connection attempt has been rejected, no new attempt is
\* started, the cache keeps the rejected promise and no connection, and every
\* request that ends afterwards is answered 500.
C10_FailedConnectIsPermanent ==
    [][ (attempts # <<>> /\ attempts[1] = "rejected")
          => /\ attempts' = attempts
             /\ cached' = cached
             /\ cached.conn = NoConn /\ cached.promise = 1
             /\ \A r \in Requests :
                   /\ req'[r].conn = NoConn
                   /\ (req[r].pc # "done" /\ req'[r].pc = "done") => req'[r].status = 500 ]_vars

\* after the rejection a list, and a create or a get, were both answered 500
C10_Witness ==
    /\ attempts = <<"rejected">>
    /\ \E r1, r2 \in Requests :
          /\ req[r1].kind = "list" /\ req[r1].status = 500
          /\ req[r2].kind \in {"create", "get"} /\ req[r2].status = 500

(***************************************************************************)
(* Properties of Event.create up to the insert (specification SpecSave).   *)
(***************************************************************************)
\* every constraint but the agenda's is met, with nothing to clean
AllButAgendaFine(b) ==
    /\ \A p \in RequiredStringPaths : ~Blank(b[p])
    /\ normalizeDate(b.date).ok
    /\ normalizeTime(b.time).ok
    /\ b.tags # <<>> /\ \A i \in 1..Len(b.tags) : ~Blank(b.tags[i])

\* C6: on create the agenda is cleaned before the non-empty check: when the
\* rest of the record is fine, an agenda with a non-blank entry goes to the
\* insert holding its non-blank entries, trimmed, in order, and an agenda of
\* blank entries only is rejected with an error naming the agenda.
C6_AgendaCleanedBeforeCheck ==
    (phase = "out" /\ AllButAgendaFine(arg))
        => LET kept == NonBlankEntries(arg.agenda)
           IN  /\ kept # <<>> => (ret.ok /\ ret.doc[1].agenda = kept)
               /\ kept = <<>> => (~ret.ok /\ ret.paths = {"agenda"})

\* the order of the checks as C9 states it
ClaimedOrder == <<"date", "time", "title", "description", "overview", "image",
                  "venue", "location", "date", "time", "mode", "audience",
                  "organizer", "agenda", "tags">>

\* is the k-th check of ClaimedOrder violated by record b
ClaimedViolated(b, k) ==
    IF k = 1 THEN ~normalizeDate(b.date).ok
    ELSE IF k = 2 THEN ~normalizeTime(b.time).ok
    ELSE IF ClaimedOrder[k] \in ArrayPaths THEN NonBlankEntries(b[ClaimedOrder[k]]) = <<>>
    ELSE Blank(b[ClaimedOrder[k]])

ClaimedViolations(b) == { k \in 1..Len(ClaimedOrder) : ClaimedViolated(b, k) }

Min(S) == CHOOSE k \in S : \A j \in S : k <= j

\* C9 as stated: a rejected record is answered with one message, and that
\* message names the first violated constraint in the order date
\* normalization, time normalization, the required strings, agenda, tags.
C9_Original ==
    (phase = "out" /\ ClaimedViolations(arg) # {})
        => /\ ~ret.ok
           /\ ClaimedOrder[Min(ClaimedViolations(arg))] \in ret.paths

\* the paths of record b that break a schema constraint: a required string
\* blank, agenda or tags empty or holding a blank entry
SchemaViolation(b, p) ==
    IF p \in ArrayPaths THEN b[p] = <<>> \/ \E i \in 1..Len(b[p]) : Blank(b[p][i])
    ELSE IF p = "slug" THEN FALSE
    ELSE Blank(b[p])

\* C9, amended: a rejected record is answered with exactly one message.
\* When the record breaks a schema constraint the message is the schema
\* validation error naming every path that breaks one and no other; only
\* otherwise it names the date when the date does not parse, and else the
\* time when the time does not parse.  A record that breaks none of these
\* is accepted.
C9_FirstErrorAmended ==
    phase = "out" =>
        LET broken == { p \in Range(SchemaPaths) : SchemaViolation(arg, p) }
        IN  IF broken # {}
            THEN ~ret.ok /\ ret.msg = "Event validation failed" /\ ret.paths = broken
            ELSE IF ~normalizeDate(arg.date).ok
            THEN ~ret.ok /\ ret.msg = "Invalid date format" /\ ret.paths = {"date"}
            ELSE IF ~normalizeTime(arg.time).ok
            THEN /\ ~ret.ok /\ ret.paths = {"time"}
                 /\ ret.msg \in {"Invalid time value", "Invalid time hour", "Invalid time format"}
            ELSE ret.ok

\* a record with a blank title, a missing organizer and a date that does not
\* parse was rejected for title and organizer
C9_Witness ==
    /\ phase = "out"
    /\ Blank(arg.title) /\ arg.organizer = <<>> /\ arg.date = NotADate
    /\ arg.agenda = ValidEvent.agenda /\ arg.tags = ValidEvent.tags
    /\ ~ret.ok /\ ret.paths = {"title", "organizer"}

(***************************************************************************)
(* Properties of slugify (specification SpecSlug).                         *)
(***************************************************************************)
\* C7: for a title that is not empty once trimmed, the slug holds only
\* a-z, 0-9 and hyphens, does not begin or end with a hyphen and has no two
\* hyphens in a row.
C7_SlugWellFormed ==
    (phase = "out" /\ trim(arg) # <<>>)
        => /\ \A i \in 1..Len(ret) : ret[i] \in Range(LowerLetters) \cup Range(DigitChars) \cup {"-"}
           /\ ret # <<>> => (ret[1] # "-" /\ ret[Len(ret)] # "-")
           /\ \A i \in 1..(Len(ret) - 1) : ~(ret[i] = "-" /\ ret[i + 1] = "-")

\* a title with an upper-case letter between punctuation and a hyphen
C7_Witness ==
    /\ phase = "out"
    /\ arg = <<"!", "B", "-", "1">>
    /\ ret = <<"b", "-", "1">>

(***************************************************************************)
(* Properties of normalizeTime (specification SpecTime).                   *)
(***************************************************************************)
\* the pieces of a text between its colons
RECURSIVE SplitColons(_)
SplitColons(s) ==
    IF \A i \in 1..Len(s) : s[i] # ":" THEN <<s>>
    ELSE LET i == CHOOSE j \in 1..Len(s) : s[j] = ":" /\ \A k \in 1..(j - 1) : s[k] # ":"
         IN  <<SubSeq(s, 1, i - 1)>> \o SplitColons(SubSeq(s, i + 1, Len(s)))

Digits(s, lo, hi) ==
    Len(s) \in lo..hi /\ \A i \in 1..Len(s) : s[i] \in Range(DigitChars)

TwoDigit(n) == <<DigitChars[(n \div 10) + 1], DigitChars[(n % 10) + 1]>>

\* the three-shape reference of C8, on the text as given
RefTime(s) ==
    LET parts == SplitColons(s)
        n     == Len(s)
    IN  IF /\ Len(parts) \in {2, 3}
           /\ Digits(parts[1], 1, 2)
           /\ Digits(parts[2], 2, 2)
           /\ Len(parts) = 3 => Digits(parts[3], 2, 2)
        THEN LET h == parseInt(parts[1])
                 m == parseInt(parts[2])
             IN  IF h \in 0..23 /\ m \in 0..59
                 THEN [ok |-> TRUE, val |-> TwoDigit(h) \o <<":">> \o TwoDigit(m)]
                 ELSE [ok |-> FALSE, val |-> <<>>]
        ELSE IF /\ n >= 3
                /\ SubSeq(s, n - 1, n) \in {<<"a", "m">>, <<"p", "m">>}
                /\ Digits(TrimEnd(SubSeq(s, 1, n - 2)), 1, 2)
        THEN LET h  == parseInt(TrimEnd(SubSeq(s, 1, n - 2)))
                 pm == s[n - 1] = "p"
                 hh == IF pm THEN (IF h = 12 THEN 12 ELSE h + 12)
                       ELSE (IF h = 12 THEN 0 ELSE h)
             IN  IF h \in 1..12
                 THEN [ok |-> TRUE, val |-> TwoDigit(hh) \o <<":", "0", "0">>]
                 ELSE [ok |-> FALSE, val |-> <<>>]
        ELSE [ok |-> FALSE, val |-> <<>>]

Agrees(res, ref) == res.ok = ref.ok /\ (res.ok => res.val = ref.val)

\* zero-padded HH:MM, hour 00..23, minute 00..59
WellFormedTime(t) ==
    /\ Len(t) = 5 /\ t[3] = ":"
    /\ Digits(SubSeq(t, 1, 2), 2, 2) /\ Digits(SubSeq(t, 4, 5), 2, 2)
    /\ parseInt(SubSeq(t, 1, 2)) \in 0..23 /\ parseInt(SubSeq(t, 4, 5)) \in 0..59

\* C8 as stated: on every input normalizeTime agrees with the reference
\* applied to that input.
C8_Original ==
    phase = "out" => Agrees(ret, RefTime(arg))

\* C8, amended: on every input normalizeTime agrees with the reference
\* applied to the input trimmed and lower-cased, and every result is a
\* zero-padded HH:MM with hour 00..23 and minute 00..59.
C8_TimeAmended ==
    phase = "out" =>
        /\ Agrees(ret, RefTime(toLowerCase(trim(arg))))
        /\ ret.ok => WellFormedTime(ret.val)

\* " 12PM" is read as noon
C8_Witness ==
    /\ phase = "out"
    /\ arg = <<" ", "1", "2", "P", "M">>
    /\ ret.ok /\ ret.val = <<"1", "2", ":", "0", "0">>

=============================================================================
